---- MODULE Spec2Model ----
(***************************************************************************)
(* A model of fight.py: a world map with an occupancy grid, entities that  *)
(* register themselves on it, and characters (Character, Wizard, Archer)   *)
(* with health, protection, mana, movement and combat.                     *)
(*                                                                         *)
(* Every public call of the program is one action.  The handlers are      *)
(* written as operators on a record s holding the mutable program state   *)
(* (the grid, each object's attributes, the pending exception), so that a *)
(* handler that calls other handlers (move -> remove -> set_position ->   *)
(* _on_move_complete) is composed exactly as the code composes it.        *)
(***************************************************************************)
EXTENDS Integers, Sequences, FiniteSets, TLC

\* ---------------------------------------------------------------- bounds
MaxMana == 6         \* a move that would take a wizard's mana past MaxMana is not made
MaxHitPoints == 25   \* SpecDuel: the target starts with 1..MaxHitPoints hit points
MaxAttacks == 5      \* SpecDuel: the attacker attacks at most MaxAttacks times
MaxProtection == 4   \* SpecPlay: no call is made that would take a protection past it

\* ------------------------------------------------------- program objects
\* The objects the caller creates, named as in the demo driver; each name is
\* bound to one class for the whole run.
Names == {"clare", "dan"}

Class(e) ==
    CASE e = "clare" -> "Wizard"
      [] e = "dan"   -> "Archer"

None == "None"

VARIABLES
    width,        \* WorldMap.width
    height,       \* WorldMap.height
    map,          \* WorldMap.map: `height` rows of `width` slots, read as map[x][y]
    status,       \* per name: "none" (not constructed), "live", "broken" (constructor raised)
    x, y,         \* Entity.x, Entity.y
    hit_points,   \* Character.hit_points
    protection,   \* Character.protection
    mana,         \* Wizard.mana
    raised,       \* the exception the last call raised to its caller, or "none"
    last,         \* the last public call the caller made: <<method, receiver>>,
                  \* for a caller that keeps a log of its calls
    hist          \* the caller's notebook: a caller that keeps one (hist.on) writes down
                  \* the arguments of its call and the program state before it; the
                  \* duel's caller notes the target's first hit points and cell and
                  \* counts its attacks

vars == <<width, height, map, status, x, y, hit_points, protection, mana, raised, last, hist>>

\* The mutable program state a handler works on.
Cur ==
    [map |-> map, status |-> status, x |-> x, y |-> y, hit_points |-> hit_points,
     protection |-> protection, mana |-> mana, raised |-> "none"]

Max(a, b) == IF a >= b THEN a ELSE b
Abs(a) == IF a >= 0 THEN a ELSE 0 - a

\* ---------------------------------------------------------------- WorldMap
\* [[None for _ in range(width)] for _ in range(height)]
NewMap(w, h) == [i \in 0..(h - 1) |-> [j \in 0..(w - 1) |-> None]]

\* map[i][j] raises IndexError unless i indexes a row and j a slot of it.
\* (Every read or write of the grid is behind a 0 <= i, 0 <= j check.)
Indexable(s, i, j) == i \in DOMAIN s.map /\ j \in DOMAIN s.map[i]

_is_valid_position(cx, cy) == 0 <= cx /\ cx < width /\ 0 <= cy /\ cy < height

is_occupied(s, cx, cy) ==
    IF ~(0 <= cx /\ cx < width /\ 0 <= cy /\ cy < height) THEN TRUE
    ELSE IF Indexable(s, cx, cy) THEN s.map[cx][cy] # None
    ELSE TRUE

\* ------------------------------------------------------------------ Entity
set_position(s, e, cx, cy) ==
    IF ~_is_valid_position(cx, cy) THEN s
    ELSE IF Indexable(s, cx, cy)
         THEN [s EXCEPT !.x[e] = cx, !.y[e] = cy, !.map[cx][cy] = e]
         ELSE [s EXCEPT !.x[e] = cx, !.y[e] = cy]

remove(s, e) ==
    IF ~_is_valid_position(s.x[e], s.y[e]) THEN s
    ELSE IF Indexable(s, s.x[e], s.y[e])
         THEN [s EXCEPT !.map[s.x[e]][s.y[e]] = None, !.x[e] = -1, !.y[e] = -1]
         ELSE [s EXCEPT !.raised = "IndexError"]

\* A constructor that registers the entity without asking is_occupied.
Entity__init__unasked(s, e, cx, cy) ==
    LET s0 == [s EXCEPT !.x[e] = -1, !.y[e] = -1]
    IN  IF ~_is_valid_position(cx, cy) THEN s0
        ELSE set_position(s0, e, cx, cy)

Entity__init__(s, e, cx, cy) ==
    LET s0 == [s EXCEPT !.x[e] = -1, !.y[e] = -1]
    IN  IF ~_is_valid_position(cx, cy) THEN s0
        ELSE IF is_occupied(s0, cx, cy) THEN s0
        ELSE set_position(s0, e, cx, cy)

distance(s, a, b) == <<Abs(s.x[b] - s.x[a]), Abs(s.y[b] - s.y[a])>>

\* --------------------------------------------------------------- Character
Character__init__(s, e, cx, cy, hp) ==
    LET s1 == Entity__init__(s, e, cx, cy)
    IN  IF hp < 0 THEN [s1 EXCEPT !.raised = "ValueError", !.status[e] = "broken"]
        ELSE [s1 EXCEPT !.hit_points[e] = hp, !.protection[e] = 0, !.status[e] = "live"]

\* str.lower() on the direction strings the caller passes
lower(d) ==
    CASE d = "LEFT" -> "left"
      [] d = "Up"   -> "up"
      [] OTHER      -> d

_get_move_delta(direction) ==
    LET d == lower(direction)
    IN  CASE d = "left"  -> <<-1, 0>>
          [] d = "right" -> <<1, 0>>
          [] d = "up"    -> <<0, 1>>
          [] d = "down"  -> <<0, -1>>
          [] OTHER       -> None

\* A post-move hook that regenerates two mana.
_on_move_complete_twice(s, e) ==
    IF Class(e) = "Wizard" THEN [s EXCEPT !.mana[e] = @ + 2] ELSE s

_on_move_complete(s, e) ==
    IF Class(e) = "Wizard" THEN [s EXCEPT !.mana[e] = @ + 1] ELSE s

\* A move that does not wrap at the edges.
move_no_wrap(s, e, direction) ==
    LET delta == _get_move_delta(direction)
    IN  IF delta = None THEN s
        ELSE LET new_x == s.x[e] + delta[1]
                 new_y == s.y[e] + delta[2]
             IN  IF is_occupied(s, new_x, new_y) THEN s
                 ELSE LET s1 == remove(s, e)
                      IN  IF s1.raised # "none" THEN s1
                          ELSE _on_move_complete(set_position(s1, e, new_x, new_y), e)

\* A move that runs its post-move hook whether or not the move was rejected.
move_hook_always(s, e, direction) ==
    LET delta == _get_move_delta(direction)
    IN  IF delta = None THEN s
        ELSE LET new_x == (s.x[e] + delta[1]) % width
                 new_y == (s.y[e] + delta[2]) % height
             IN  IF is_occupied(s, new_x, new_y) THEN _on_move_complete(s, e)
                 ELSE LET s1 == remove(s, e)
                      IN  IF s1.raised # "none" THEN s1
                          ELSE _on_move_complete(set_position(s1, e, new_x, new_y), e)

\* A move that does not ask whether its destination is occupied.
move_onto_any(s, e, direction) ==
    LET delta == _get_move_delta(direction)
    IN  IF delta = None THEN s
        ELSE LET new_x == (s.x[e] + delta[1]) % width
                 new_y == (s.y[e] + delta[2]) % height
                 s1 == remove(s, e)
             IN  IF s1.raised # "none" THEN s1
                 ELSE _on_move_complete(set_position(s1, e, new_x, new_y), e)

move(s, e, direction) ==
    LET delta == _get_move_delta(direction)
    IN  IF delta = None THEN s
        ELSE LET new_x == (s.x[e] + delta[1]) % width
                 new_y == (s.y[e] + delta[2]) % height
             IN  IF is_occupied(s, new_x, new_y) THEN s
                 ELSE LET s1 == remove(s, e)
                      IN  IF s1.raised # "none" THEN s1
                          ELSE _on_move_complete(set_position(s1, e, new_x, new_y), e)

\* A melee range that reaches across the left and right edges of the map.
can_attack_wrap(s, a, t) ==
    LET d == distance(s, a, t) IN (d[1] = 1 \/ d[1] = width - 1) /\ d[2] = 0

can_attack(s, a, t) ==
    LET d == distance(s, a, t) IN d[1] = 1 /\ d[2] = 0

has_protection(s, e) == s.protection[e] > 0

gain_health(s, e, amount) ==
    IF amount < 0 THEN [s EXCEPT !.raised = "ValueError"]
    ELSE [s EXCEPT !.hit_points[e] = @ + amount]

\* A lose_health that forgets to take the defeated character off the map.
lose_health_no_remove(s, e, reduction) ==
    IF reduction < 0 THEN [s EXCEPT !.raised = "ValueError"]
    ELSE [s EXCEPT !.hit_points[e] = Max(@ - reduction, 0)]

\* A lose_health that neither validates the reduction nor stops at 0.
lose_health_unchecked(s, e, reduction) ==
    LET s1 == [s EXCEPT !.hit_points[e] = @ - reduction]
    IN  IF s1.hit_points[e] <= 0 THEN remove(s1, e) ELSE s1

lose_health(s, e, reduction) ==
    IF reduction < 0 THEN [s EXCEPT !.raised = "ValueError"]
    ELSE LET s1 == [s EXCEPT !.hit_points[e] = Max(@ - reduction, 0)]
         IN  IF s1.hit_points[e] = 0 THEN remove(s1, e) ELSE s1

gain_protection(s, e, amount) ==
    IF amount < 0 THEN [s EXCEPT !.raised = "ValueError"]
    ELSE [s EXCEPT !.protection[e] = @ + amount]

lose_protection(s, e, reduction) ==
    IF reduction < 0 THEN [s EXCEPT !.raised = "ValueError"]
    ELSE [s EXCEPT !.protection[e] = Max(@ - reduction, 0)]

\* A damage path that lets what the protection cannot absorb reach the health.
_deal_damage_overflow(s, a, t, base_damage) ==
    IF ~can_attack(s, a, t) THEN s
    ELSE IF ~has_protection(s, t) THEN lose_health(s, t, base_damage)
    ELSE lose_health(lose_protection(s, t, base_damage), t,
                     Max(base_damage - s.protection[t], 0))

_deal_damage(s, a, t, base_damage) ==
    IF ~can_attack(s, a, t) THEN s
    ELSE IF ~has_protection(s, t) THEN lose_health(s, t, base_damage)
    ELSE lose_protection(s, t, base_damage)

attack(s, a, t) == _deal_damage(s, a, t, 10)

power_attack(s, a, t) == _deal_damage(s, a, t, 20)

\* ------------------------------------------------------------------ Wizard
Wizard__init__(s, e, cx, cy, hp, mn) ==
    LET s1 == Character__init__(s, e, cx, cy, hp)
    IN  IF s1.raised # "none" THEN s1
        ELSE IF mn < 0 THEN [s1 EXCEPT !.raised = "ValueError", !.status[e] = "broken"]
        ELSE [s1 EXCEPT !.mana[e] = mn]

\* for _ in range(num_attacks): self.attack(enemy); an exception ends the loop
RECURSIVE attacks(_, _, _, _)
attacks(s, a, t, n) ==
    IF n = 0 \/ s.raised # "none" THEN s
    ELSE attacks(attack(s, a, t), a, t, n - 1)

\* A spell that is paid for before its range is checked.
cast_spell_pays_first(s, a, t, num_attacks) ==
    IF s.mana[a] < 5 THEN s
    ELSE IF ~can_attack(s, a, t) THEN [s EXCEPT !.mana[a] = @ - 5]
    ELSE attacks([s EXCEPT !.mana[a] = @ - 5], a, t, num_attacks)

cast_spell(s, a, t, num_attacks) ==
    IF s.mana[a] < 5 THEN s
    ELSE IF ~can_attack(s, a, t) THEN s
    ELSE attacks([s EXCEPT !.mana[a] = @ - 5], a, t, num_attacks)

\* A heal that reaches only a target in melee range.
heal_in_range(s, a, t) ==
    IF s.mana[a] < 5 THEN s
    ELSE IF ~can_attack(s, a, t) THEN s
    ELSE gain_health([s EXCEPT !.mana[a] = @ - 5], t, 15)

heal(s, a, t) ==
    IF s.mana[a] < 5 THEN s
    ELSE gain_health([s EXCEPT !.mana[a] = @ - 5], t, 15)

\* ------------------------------------------------------------------ Archer
range_attack(s, a, t) ==
    LET d == distance(s, a, t)
    IN  IF d[1] <= 5 /\ d[2] = 0 THEN _deal_damage(s, a, t, 5) ELSE s

\* ------------------------------------------------------------------ actions
\* One action per public call; the caller's arguments are drawn from small sets.
\* A caller that keeps no log of its calls leaves `last` at Unlogged.
Unlogged == <<"unlogged", "None">>

Commit(s, call, args) ==
    /\ map' = s.map
    /\ status' = s.status
    /\ x' = s.x
    /\ y' = s.y
    /\ hit_points' = s.hit_points
    /\ protection' = s.protection
    /\ mana' = s.mana
    /\ raised' = s.raised
    /\ last' = IF last = Unlogged THEN last ELSE call
    /\ hist' = IF hist.on THEN [on |-> TRUE, args |-> args, before |-> Cur] ELSE hist
    /\ UNCHANGED <<width, height>>

Live(e) == status[e] = "live"
Directions == {"left", "right", "up", "down", "LEFT", "Up", "sideways"}
RandInt == 1..5

NewAt(e, cx, cy, hp, mn) ==
    /\ status[e] = "none"
    /\ Commit(IF Class(e) = "Wizard"
              THEN Wizard__init__(Cur, e, cx, cy, hp, mn)
              ELSE Character__init__(Cur, e, cx, cy, hp),
              <<"__init__", e>>, <<cx, cy, hp, mn>>)

New(e, HPs, Manas) ==
    \E cx \in -1..width, cy \in -1..height, hp \in HPs, mn \in Manas :
        NewAt(e, cx, cy, hp, mn)

SetPositionAt(e, cx, cy) ==
    /\ Live(e)
    /\ Commit(set_position(Cur, e, cx, cy), <<"set_position", e>>, <<cx, cy>>)

SetPosition(e) == \E cx \in -1..width, cy \in -1..height : SetPositionAt(e, cx, cy)

Remove(e) ==
    /\ Live(e)
    /\ Commit(remove(Cur, e), <<"remove", e>>, <<>>)

MoveIn(e, d) ==
    /\ Live(e)
    /\ LET s == move(Cur, e, d)
       IN  s.mana[e] <= MaxMana /\ Commit(s, <<"move", e>>, <<d>>)

Move(e) == \E d \in Directions : MoveIn(e, d)

Attack(a, t) ==
    /\ Live(a) /\ Live(t)
    /\ Commit(attack(Cur, a, t), <<"attack", a>>, <<t>>)

PowerAttack(a, t) ==
    /\ Live(a) /\ Live(t)
    /\ Commit(power_attack(Cur, a, t), <<"power_attack", a>>, <<t>>)

RangeAttack(a, t) ==
    /\ Live(a) /\ Live(t) /\ Class(a) = "Archer"
    /\ Commit(range_attack(Cur, a, t), <<"range_attack", a>>, <<t>>)

CastSpellN(a, t, n) ==
    /\ Live(a) /\ Live(t) /\ Class(a) = "Wizard"
    /\ Commit(cast_spell(Cur, a, t, n), <<"cast_spell", a>>, <<t, n>>)

CastSpell(a, t) == \E n \in RandInt : CastSpellN(a, t, n)

Heal(a, t) ==
    /\ Live(a) /\ Live(t) /\ Class(a) = "Wizard"
    /\ Commit(heal(Cur, a, t), <<"heal", a>>, <<t>>)

GainHealthBy(e, n) ==
    /\ Live(e)
    /\ Commit(gain_health(Cur, e, n), <<"gain_health", e>>, <<n>>)

GainHealth(e, Amounts) == \E n \in Amounts : GainHealthBy(e, n)

LoseHealthBy(e, n) ==
    /\ Live(e)
    /\ Commit(lose_health(Cur, e, n), <<"lose_health", e>>, <<n>>)

LoseHealth(e, Amounts) == \E n \in Amounts : LoseHealthBy(e, n)

GainProtectionBy(e, n) ==
    /\ Live(e)
    /\ Commit(gain_protection(Cur, e, n), <<"gain_protection", e>>, <<n>>)

GainProtection(e, Amounts) == \E n \in Amounts : GainProtectionBy(e, n)

LoseProtectionBy(e, n) ==
    /\ Live(e)
    /\ Commit(lose_protection(Cur, e, n), <<"lose_protection", e>>, <<n>>)

LoseProtection(e, Amounts) == \E n \in Amounts : LoseProtectionBy(e, n)

\* ------------------------------------------------------------ the programs
Started == <<"start", None>>
NoNotes == [on |-> FALSE, args |-> <<>>, before |-> <<>>]
BlankPage == [on |-> TRUE, args |-> <<>>, before |-> <<>>]
Unplaced == <<-1, -1>>
Cells(w, h) == (0..(w - 1)) \X (0..(h - 1))

\* world = WorldMap(w, h), nothing constructed yet
Blank(w, h) ==
    /\ width = w
    /\ height = h
    /\ map = NewMap(w, h)
    /\ status = [e \in Names |-> "none"]
    /\ x = [e \in Names |-> -1]
    /\ y = [e \in Names |-> -1]
    /\ hit_points = [e \in Names |-> 0]
    /\ protection = [e \in Names |-> 0]
    /\ mana = [e \in Names |-> 0]
    /\ raised = "none"
    /\ last = Started
    /\ hist = NoNotes

\* Spec: a caller that starts from an empty world of any small shape and makes
\* any sequence of constructor, set_position, remove, move and attack calls.
Worlds == {<<1, 1>>, <<2, 1>>, <<1, 2>>, <<2, 2>>}

Init == \E wh \in Worlds : Blank(wh[1], wh[2])

Next ==
    \E e \in Names :
        \/ New(e, {-1, 0, 10}, {-1, 4})
        \/ SetPosition(e)
        \/ Remove(e)
        \/ Move(e)
        \/ \E t \in Names : Attack(e, t)

Spec == Init /\ [][Next]_vars

\* The grid after the constructors have placed the characters at px, py: the
\* slot read as map[i][j] refers to the character standing on cell (i, j).
Placed(w, h, px, py) ==
    [i \in 0..(h - 1) |-> [j \in 0..(w - 1) |->
        IF \E e \in Names : px[e] = i /\ py[e] = j
        THEN CHOOSE e \in Names : px[e] = i /\ py[e] = j
        ELSE None]]

\* Both characters constructed: clare at pc, dan at pd.
Built(pc, pd) ==
    /\ x = [e \in Names |-> IF e = "clare" THEN pc[1] ELSE pd[1]]
    /\ y = [e \in Names |-> IF e = "clare" THEN pc[2] ELSE pd[2]]
    /\ status = [e \in Names |-> "live"]
    /\ raised = "none"
    /\ last = Started

First == hist = BlankPage

\* SpecCombat: the caller has built a world (both characters constructed, on
\* cells of their own or unplaced, with the hit points, protection and mana it
\* gave them), then makes one combat or resource call and notes it down.  On
\* the 2 x 1 world cell (1, 0) has no slot: a character gets there by
\* set_position only.
CombatWorlds == {<<3, 3>>, <<2, 1>>}
CombatHitPoints == {0, 5, 15}
CombatProtection == {0, 4, 12}
CombatMana == {3, 5}

InitCombat ==
    \E wh \in CombatWorlds :
        /\ width = wh[1]
        /\ height = wh[2]
        /\ \E pc, pd \in {Unplaced} \cup Cells(width, height) :
              /\ (pc = pd) => (pc = Unplaced)
              /\ Built(pc, pd)
        /\ map = Placed(width, height, x, y)
        /\ hit_points \in [Names -> CombatHitPoints]
        /\ protection \in [Names -> CombatProtection]
        /\ mana \in [Names -> CombatMana]
        /\ mana["dan"] = 3
        /\ hist = BlankPage

NextCombat ==
    \E e \in Names :
        \/ \E t \in Names : First /\ Attack(e, t)
        \/ \E t \in Names : First /\ PowerAttack(e, t)
        \/ \E t \in Names : First /\ RangeAttack(e, t)
        \/ \E t \in Names : First /\ CastSpell(e, t)
        \/ \E t \in Names : First /\ Heal(e, t)
        \/ First /\ GainHealth(e, {-1, 0, 10})
        \/ First /\ LoseHealth(e, {-1, 0, 5, 30})
        \/ First /\ GainProtection(e, {-1, 0, 4})
        \/ First /\ LoseProtection(e, {-1, 0, 1, 30})

SpecCombat == InitCombat /\ [][NextCombat]_vars

\* SpecMove: the caller has built a world and moved things about with
\* set_position and remove (so a slot may refer to a character that stands
\* elsewhere, two characters may stand on one cell, and a character may stand
\* on a cell that has no slot), then makes one move call and notes it down.
MoveWorlds == {<<1, 1>>, <<3, 3>>, <<3, 2>>, <<2, 3>>}

InitMove ==
    \E wh \in MoveWorlds :
        /\ width = wh[1]
        /\ height = wh[2]
        /\ \E pc, pd \in {Unplaced} \cup Cells(width, height) : Built(pc, pd)
        /\ \E c \in Cells(height, width), v \in Names \cup {None} :
              map = [Placed(width, height, x, y) EXCEPT ![c[1]][c[2]] = v]
        /\ hit_points \in [Names -> {0, 10}]
        /\ protection = [e \in Names |-> 0]
        /\ mana = [e \in Names |-> IF e = "clare" THEN 4 ELSE 0]
        /\ hist = BlankPage

NextMove == \E e \in Names : First /\ Move(e)

SpecMove == InitMove /\ [][NextMove]_vars

\* SpecDuel: the end-to-end scenario.  Two characters constructed side by side
\* on cells of their own, the target unprotected with h hit points; the caller
\* does nothing but let the attacker attack, and counts the attacks.
DuelWorlds == {<<2, 2>>, <<3, 3>>, <<3, 2>>}

InitDuel ==
    \E wh \in DuelWorlds, a \in Names, h \in 1..MaxHitPoints :
        /\ width = wh[1]
        /\ height = wh[2]
        /\ \E pa, pt \in Cells(width, height) \cap Cells(height, width) :
              /\ Abs(pa[1] - pt[1]) = 1 /\ pa[2] = pt[2]
              /\ Built(IF a = "clare" THEN pa ELSE pt, IF a = "clare" THEN pt ELSE pa)
              /\ hist = [on |-> FALSE, attacker |-> a, h |-> h, at |-> pt, attacks |-> 0]
        /\ map = Placed(width, height, x, y)
        /\ hit_points = [e \in Names |-> IF e = a THEN 10 ELSE h]
        /\ protection = [e \in Names |-> 0]
        /\ mana = [e \in Names |-> 0]

DuelAttack(a, t) ==
    /\ hist.attacker = a /\ t # a
    /\ hist.attacks < MaxAttacks
    /\ LET s == attack(Cur, a, t)
       IN  /\ map' = s.map
           /\ status' = s.status
           /\ x' = s.x
           /\ y' = s.y
           /\ hit_points' = s.hit_points
           /\ protection' = s.protection
           /\ mana' = s.mana
           /\ raised' = s.raised
           /\ last' = <<"attack", a>>
           /\ hist' = [hist EXCEPT !.attacks = @ + 1]
           /\ UNCHANGED <<width, height>>

NextDuel == \E a, t \in Names : DuelAttack(a, t)

SpecDuel == InitDuel /\ [][NextDuel]_vars

\* SpecPlay: a caller that starts from an empty square world and makes any
\* sequence of constructor, move, remove, combat and resource calls, and never
\* calls set_position itself.  It makes no call that would take hit points
\* past MaxHitPoints, protection past MaxProtection or mana past MaxMana.
PlayWorlds == {<<1, 1>>, <<2, 2>>}

InitPlay ==
    \E wh \in PlayWorlds :
        /\ width = wh[1]
        /\ height = wh[2]
        /\ map = NewMap(width, height)
        /\ status = [e \in Names |-> "none"]
        /\ x = [e \in Names |-> -1]
        /\ y = [e \in Names |-> -1]
        /\ hit_points = [e \in Names |-> 0]
        /\ protection = [e \in Names |-> 0]
        /\ mana = [e \in Names |-> 0]
        /\ raised = "none"
        /\ last = Unlogged
        /\ hist = NoNotes

Capped ==
    \A e \in Names :
        hit_points'[e] <= MaxHitPoints /\ protection'[e] <= MaxProtection

NextPlay ==
    \E e \in Names :
        \/ New(e, {-1, 0, 10}, {-1, 5})
        \/ Remove(e)
        \/ Move(e)
        \/ \E t \in Names : Attack(e, t)
        \/ \E t \in Names : PowerAttack(e, t)
        \/ \E t \in Names : RangeAttack(e, t)
        \/ \E t \in Names : CastSpell(e, t)
        \/ \E t \in Names : Heal(e, t) /\ Capped
        \/ GainHealth(e, {-1, 10}) /\ Capped
        \/ LoseHealth(e, {-20, 10})
        \/ GainProtection(e, {-1, 4}) /\ Capped
        \/ LoseProtection(e, {-4, 4})

SpecPlay == InitPlay /\ [][NextPlay]_vars

\* =================================================================== claims
\* The vocabulary of the claims, in terms of the program's variables alone.
InBounds(cx, cy) == cx \in 0..(width - 1) /\ cy \in 0..(height - 1)

\* Cell (cx, cy) has an occupancy slot, read as m[cx][cy].
HasSlot(m, cx, cy) == cx \in DOMAIN m /\ cy \in DOMAIN m[cx]

\* The cells whose slot in m refers to e.
RefersTo(m, e) == {c \in Cells(width, height) : HasSlot(m, c[1], c[2]) /\ m[c[1]][c[2]] = e}

\* e stands on a cell: its position is in bounds and that cell's slot points back.
OnCell(e) ==
    /\ InBounds(x[e], y[e])
    /\ HasSlot(map, x[e], y[e])
    /\ map[x[e]][y[e]] = e

\* Cell (cx, cy) is in bounds and its slot holds no entity.
Free(cx, cy) == InBounds(cx, cy) /\ HasSlot(map, cx, cy) /\ map[cx][cy] = None

Objects == {e \in Names : status[e] # "none"}
Characters == {e \in Names : status[e] = "live"}
Other(e) == CHOOSE o \in Names : o # e

\* The delta of a direction, as the specification gives it.
Delta(d) ==
    CASE d \in {"left", "LEFT"}  -> <<-1, 0>>
      [] d = "right"             -> <<1, 0>>
      [] d \in {"up", "Up"}      -> <<0, 1>>
      [] d = "down"              -> <<0, -1>>
      [] OTHER                   -> <<0, 0>>
ValidDirections == {"left", "LEFT", "right", "up", "Up", "down"}

\* t takes d damage: protection, when it has any, absorbs the whole hit.
Hit(t, d) ==
    IF protection[t] > 0
    THEN protection'[t] = Max(protection[t] - d, 0) /\ hit_points'[t] = hit_points[t]
    ELSE hit_points'[t] = Max(hit_points[t] - d, 0) /\ protection'[t] = protection[t]

InMelee(a, t) == Abs(x[t] - x[a]) = 1 /\ y[t] = y[a]

\* C1 (as claimed): every in-bounds cell holds no entity, or one entity whose
\* recorded position is that cell.  (Stated for square worlds, where every
\* in-bounds cell has a slot.)
C1_CellHoldsItsOccupant ==
    width = height =>
        \A c \in Cells(width, height) :
            \/ map[c[1]][c[2]] = None
            \/ x[map[c[1]][c[2]]] = c[1] /\ y[map[c[1]][c[2]]] = c[2]

\* C2 (as claimed): an entity's recorded position is a cell if and only if
\* that cell's slot refers to the entity.  (Stated for square worlds.)
C2_PlacedIffSlotPointsBack ==
    width = height =>
        \A e \in Objects : \A c \in Cells(width, height) :
            (x[e] = c[1] /\ y[e] = c[2]) <=> (map[c[1]][c[2]] = e)

\* C3 (as claimed): range_attack deals 5 damage through the protection-aware
\* path whenever |dx| <= 5 and dy = 0, and changes nothing of the target
\* otherwise.  (Stated for an archer and a target that each stand on a cell
\* of their own, the case nobody disputes.)
C3_RangeAttackReaches ==
    [][\A a, t \in Names :
          (RangeAttack(a, t) /\ a # t /\ OnCell(a) /\ OnCell(t)) =>
              IF Abs(x[t] - x[a]) <= 5 /\ y[t] = y[a]
              THEN Hit(t, 5)
              ELSE hit_points'[t] = hit_points[t] /\ protection'[t] = protection[t]]_vars

\* C4 (as claimed): a character with 0 hit points is unplaced and no cell
\* refers to it.
C4_DefeatedIsUnplaced ==
    \A e \in Characters :
        hit_points[e] = 0 => (x[e] = -1 /\ y[e] = -1 /\ RefersTo(map, e) = {})

\* C5 (as claimed): set_position out of bounds changes neither the entity's
\* coordinates nor the grid; in bounds it leaves the entity at (cx, cy), the
\* cell referring to it and no other cell referring to it.
C5_SetPositionAgrees ==
    [][\A e \in Names : \A cx \in -1..width, cy \in -1..height :
          SetPositionAt(e, cx, cy) =>
              IF ~InBounds(cx, cy)
              THEN x'[e] = x[e] /\ y'[e] = y[e] /\ map' = map
              ELSE /\ x'[e] = cx /\ y'[e] = cy
                   /\ RefersTo(map', e) = {<<cx, cy>>}]_vars

\* C6: attack (10) and power_attack (20) on a target in melee range take the
\* damage off the protection when the target has any (floored at 0, health
\* untouched) and off the health otherwise (floored at 0, protection
\* untouched); out of melee range the target's hit points, protection and
\* position stay as they were.
C6_DamageResolution ==
    [][\A a, t \in Names : \A d \in {10, 20} :
          ((d = 10 /\ Attack(a, t)) \/ (d = 20 /\ PowerAttack(a, t))) =>
              IF InMelee(a, t)
              THEN Hit(t, d)
              ELSE /\ hit_points'[t] = hit_points[t]
                   /\ protection'[t] = protection[t]
                   /\ x'[t] = x[t] /\ y'[t] = y[t]]_vars

\* clare has attacked dan, who stood next to her with 4 protection: the
\* protection is gone and dan's health is what it was.
C6_Witness ==
    /\ last = <<"attack", "clare">>
    /\ hist.args = <<"dan">>
    /\ Abs(hist.before.x["dan"] - hist.before.x["clare"]) = 1
    /\ hist.before.y["dan"] = hist.before.y["clare"]
    /\ hist.before.protection["dan"] = 4
    /\ protection["dan"] = 0
    /\ hit_points["dan"] = hist.before.hit_points["dan"]

\* C7 (as claimed): when an attack brings the target's hit points to 0, the
\* target is unplaced afterwards and the cell it stood on is empty.
C7_DefeatRemoves ==
    [][\A a, t \in Names :
          (Attack(a, t) /\ hit_points[t] > 0 /\ hit_points'[t] = 0) =>
              /\ x'[t] = -1 /\ y'[t] = -1
              /\ HasSlot(map', x[t], y[t]) => map'[x[t]][y[t]] = None]_vars

\* C8: in the duel, the n-th attack leaves the target with max(h - 10 n, 0)
\* hit points; before attack number ceil(h / 10) the target is still on its
\* cell, that attack takes it off the map, and every later attack changes
\* nothing.
C8_Duel ==
    [][\A a, t \in Names :
          DuelAttack(a, t) =>
              LET h == hist.h
                  n == hist.attacks + 1
                  k == (h + 9) \div 10
                  at == hist.at
              IN  /\ hit_points'[t] = Max(h - 10 * n, 0)
                  /\ (n < k) => /\ hit_points'[t] > 0
                                /\ x'[t] = at[1] /\ y'[t] = at[2]
                                /\ map'[at[1]][at[2]] = t
                  /\ (n = k) => /\ hit_points'[t] = 0
                                /\ x'[t] = -1 /\ y'[t] = -1
                                /\ RefersTo(map', t) = {}
                  /\ (n > k) => UNCHANGED <<map, status, x, y, hit_points,
                                            protection, mana>>
                  /\ raised' = "none"]_vars

\* A target that started with 15 hit points is off the map, with 0 hit
\* points, after exactly two attacks.
C8_Witness ==
    /\ last[1] = "attack"
    /\ hist.h = 15 /\ hist.attacks = 2
    /\ hit_points[Other(hist.attacker)] = 0
    /\ x[Other(hist.attacker)] = -1
    /\ map[hist.at[1]][hist.at[2]] = None

\* C9: a move of a character that stands on a cell, in one of the four
\* directions, to a free destination ((x + dx) mod width, (y + dy) mod height)
\* ends with the character at that destination, the destination's slot
\* referring to it and the old cell empty.
C9_MoveWraps ==
    [][\A e \in Names : \A d \in ValidDirections :
          LET nx == (x[e] + Delta(d)[1]) % width
              ny == (y[e] + Delta(d)[2]) % height
          IN  (MoveIn(e, d) /\ OnCell(e) /\ Free(nx, ny)) =>
                  /\ x'[e] = nx /\ y'[e] = ny
                  /\ map'[nx][ny] = e
                  /\ map'[x[e]][y[e]] = None]_vars

\* dan stood on the left edge of a world three cells wide, moved left, and is
\* on the right edge.
C9_Witness ==
    /\ last = <<"move", "dan">>
    /\ hist.args = <<"left">>
    /\ width = 3
    /\ hist.before.x["dan"] = 0
    /\ hist.before.map[0][hist.before.y["dan"]] = "dan"
    /\ x["dan"] = 2 /\ y["dan"] = hist.before.y["dan"]
    /\ map[2][y["dan"]] = "dan"
    /\ map[0][y["dan"]] = None

C11_ManaRegen ==
    [][\A e \in Names : \A d \in Directions :
          LET nx == (x[e] + Delta(d)[1]) % width
              ny == (y[e] + Delta(d)[2]) % height
              took_place == d \in ValidDirections /\ Free(nx, ny) /\ raised' = "none"
          IN  MoveIn(e, d) =>
                  /\ hit_points' = hit_points
                  /\ protection' = protection
                  /\ \A o \in Names \ {e} : mana'[o] = mana[o]
                  /\ mana'[e] = IF Class(e) = "Wizard" /\ took_place
                                THEN mana[e] + 1
                                ELSE mana[e]]_vars

\* clare, a wizard with 4 mana standing on a cell, moved up onto the next
\* cell and has 5 mana.
C11_Witness ==
    /\ last = <<"move", "clare">>
    /\ hist.args = <<"up">>
    /\ width = 3 /\ height = 3
    /\ hist.before.x["clare"] >= 0 /\ hist.before.y["clare"] >= 0
    /\ hist.before.map[hist.before.x["clare"]][hist.before.y["clare"]] = "clare"
    /\ hist.before.mana["clare"] = 4
    /\ y["clare"] = hist.before.y["clare"] + 1
    /\ x["clare"] = hist.before.x["clare"]
    /\ mana["clare"] = 5

\* <<hit points, protection>> of a target in melee range after n basic
\* attacks of 10 damage each, as the specification resolves damage.
RECURSIVE AfterAttacks(_, _, _)
AfterAttacks(hp, pr, n) ==
    IF n = 0 THEN <<hp, pr>>
    ELSE IF pr > 0 THEN AfterAttacks(hp, Max(pr - 10, 0), n - 1)
    ELSE AfterAttacks(Max(hp - 10, 0), pr, n - 1)

\* One of the n attacks reached the health and brought it to 0.
DefeatedBy(hp, pr, n) == AfterAttacks(hp, pr, n)[1] = 0 /\ n > (pr + 9) \div 10

\* C12: cast_spell with less than 5 mana, or on a target out of melee range,
\* leaves the mana, the target and the grid as they were; otherwise it costs
\* exactly 5 mana, the number N of attacks it makes is one of 1..5, and the
\* target is left as N basic attacks leave it (off the map when they defeat
\* it, where it stood otherwise).
C12_CastSpell ==
    [][\A a, t \in Names : \A n \in 0..6 :
          CastSpellN(a, t, n) =>
              IF mana[a] < 5 \/ ~InMelee(a, t)
              THEN /\ mana' = mana
                   /\ hit_points'[t] = hit_points[t]
                   /\ protection'[t] = protection[t]
                   /\ x'[t] = x[t] /\ y'[t] = y[t]
                   /\ map' = map
              ELSE /\ mana'[a] = mana[a] - 5
                   /\ n \in 1..5
                   /\ <<hit_points'[t], protection'[t]>> =
                          AfterAttacks(hit_points[t], protection[t], n)
                   /\ OnCell(t) =>
                          IF DefeatedBy(hit_points[t], protection[t], n)
                          THEN x'[t] = -1 /\ y'[t] = -1 /\ RefersTo(map', t) = {}
                          ELSE x'[t] = x[t] /\ y'[t] = y[t]]_vars

\* clare, with 5 mana, cast a spell of 3 attacks on dan, who stood next to
\* her with 12 protection and 15 hit points: she has no mana left, dan no
\* protection and 5 hit points.
C12_Witness ==
    /\ last = <<"cast_spell", "clare">>
    /\ hist.args = <<"dan", 3>>
    /\ Abs(hist.before.x["dan"] - hist.before.x["clare"]) = 1
    /\ hist.before.y["dan"] = hist.before.y["clare"]
    /\ hist.before.mana["clare"] = 5
    /\ hist.before.protection["dan"] = 12
    /\ hist.before.hit_points["dan"] = 15
    /\ mana["clare"] = 0
    /\ protection["dan"] = 0
    /\ hit_points["dan"] = 5

\* C13: heal with less than 5 mana changes nothing; otherwise, wherever the
\* wizard and the target are, it costs exactly 5 mana, gives the target
\* exactly 15 hit points, and changes no position and no cell of the grid.
C13_Heal ==
    [][\A a, t \in Names :
          Heal(a, t) =>
              IF mana[a] < 5
              THEN UNCHANGED <<map, status, x, y, hit_points, protection, mana>>
              ELSE /\ mana'[a] = mana[a] - 5
                   /\ hit_points'[t] = hit_points[t] + 15
                   /\ \A o \in Names \ {t} : hit_points'[o] = hit_points[o]
                   /\ UNCHANGED <<map, x, y, protection>>
                   /\ raised' = "none"]_vars

\* clare, with 5 mana, healed dan, who stood two cells away with 5 hit
\* points: she has no mana left and dan has 20 hit points.
C13_Witness ==
    /\ last = <<"heal", "clare">>
    /\ hist.args = <<"dan">>
    /\ hist.before.x["clare"] >= 0 /\ hist.before.x["dan"] >= 0
    /\ Abs(hist.before.x["dan"] - hist.before.x["clare"]) = 2
    /\ hist.before.mana["clare"] = 5
    /\ hist.before.hit_points["dan"] = 5
    /\ mana["clare"] = 0
    /\ hit_points["dan"] = 20
    /\ x = hist.before.x /\ y = hist.before.y /\ map = hist.before.map

NonNegative ==
    \A e \in Characters :
        /\ hit_points[e] >= 0
        /\ protection[e] >= 0
        /\ Class(e) = "Wizard" => mana[e] >= 0

\* C14: in every reachable state every character has hit_points >= 0 and
\* protection >= 0 and every wizard mana >= 0; and a gain_health,
\* lose_health, gain_protection or lose_protection call with a negative
\* amount raises ValueError and leaves the character's hit points and
\* protection as they were.
C14_Resources ==
    /\ []NonNegative
    /\ [][\A e \in Names :
            (\/ GainHealthBy(e, -1) \/ LoseHealthBy(e, -20)
             \/ GainProtectionBy(e, -1) \/ LoseProtectionBy(e, -4)) =>
                /\ raised' = "ValueError"
                /\ hit_points'[e] = hit_points[e]
                /\ protection'[e] = protection[e]]_vars

\* Both characters are constructed, dan is defeated, clare has spent all her
\* mana, and the call just made was refused with ValueError.
C14_Witness ==
    /\ last = Unlogged
    /\ Characters = Names
    /\ raised = "ValueError"
    /\ hit_points["dan"] = 0
    /\ mana["clare"] = 0
    /\ protection["clare"] = MaxProtection

\* Some constructed entity's recorded position is (cx, cy).
Holds(cx, cy) == \E e \in Objects : x[e] = cx /\ y[e] = cy

\* C15 (as claimed): on every map, square or not, is_occupied(cx, cy) is
\* false if and only if (cx, cy) is in bounds and no entity is placed there.
C15_IsOccupied ==
    \A cx \in -1..width, cy \in -1..height :
        (~is_occupied(Cur, cx, cy)) <=> (InBounds(cx, cy) /\ ~Holds(cx, cy))

\* Cell (cx, cy) is taken: its slot refers to an entity, or an entity's
\* recorded position is the cell.
Taken(cx, cy) ==
    \/ HasSlot(map, cx, cy) /\ map[cx][cy] # None
    \/ Holds(cx, cy)

is_occupied_after(cx, cy) == is_occupied([Cur EXCEPT !.map = map'], cx, cy)

\* C17 (as claimed): once a constructor or set_position has placed an entity
\* at an in-bounds (cx, cy), is_occupied(cx, cy) is true; remove() on an
\* entity placed at (cx, cy) leaves is_occupied(cx, cy) false and the entity
\* at the sentinel position; remove() on an unplaced entity changes nothing.
C17_PlaceRemoveRoundTrip ==
    [][\A e \in Names :
          /\ \A cx \in 0..(width - 1), cy \in 0..(height - 1) :
                ((\/ SetPositionAt(e, cx, cy)
                  \/ \E hp \in {0, 10}, mn \in {-1, 4} : NewAt(e, cx, cy, hp, mn))
                 /\ x'[e] = cx /\ y'[e] = cy) => is_occupied_after(cx, cy)
          /\ Remove(e) =>
                IF InBounds(x[e], y[e])
                THEN /\ ~is_occupied_after(x[e], y[e])
                     /\ x'[e] = -1 /\ y'[e] = -1
                ELSE /\ UNCHANGED <<map, status, x, y, hit_points, protection, mana>>
                     /\ raised' = "none"]_vars

\* C18: can_attack(target) is true exactly when the target is on the
\* attacker's row, one cell to its left or right, the map's edges not being
\* joined; it is false at per-axis distances (0,0), (2,0), (0,1) and (1,1).
C18_CanAttack ==
    \A a, t \in Characters :
        /\ can_attack(Cur, a, t) <=>
              (y[t] = y[a] /\ (x[t] = x[a] + 1 \/ x[t] = x[a] - 1))
        /\ <<Abs(x[t] - x[a]), Abs(y[t] - y[a])>> \in
              {<<0, 0>>, <<2, 0>>, <<0, 1>>, <<1, 1>>} => ~can_attack(Cur, a, t)

\* clare attacked dan from the left edge of a row three cells wide while dan
\* stood on its right edge: dan is as he was.
C18_Witness ==
    /\ last = <<"attack", "clare">>
    /\ hist.args = <<"dan">>
    /\ width = 3
    /\ hist.before.x["clare"] = 0 /\ hist.before.x["dan"] = 2
    /\ hist.before.y["clare"] = hist.before.y["dan"]
    /\ ~can_attack(hist.before, "clare", "dan")
    /\ hit_points["dan"] = hist.before.hit_points["dan"]
    /\ protection["dan"] = hist.before.protection["dan"]
    /\ x["dan"] = 2

\* C19: on a square map, for a caller that never calls set_position itself,
\* no two distinct entities have the same in-bounds recorded position, and
\* every cell refers to no entity or to the one entity positioned there.
C19_NoSharedCell ==
    /\ \A e, o \in Objects :
          (e # o /\ InBounds(x[e], y[e])) => <<x[e], y[e]>> # <<x[o], y[o]>>
    /\ \A c \in Cells(width, height) :
          \/ map[c[1]][c[2]] = None
          \/ x[map[c[1]][c[2]]] = c[1] /\ y[map[c[1]][c[2]]] = c[2]

\* On the 2 x 2 world both characters stand on a cell each, dan wounded and
\* clare, who has moved since she was constructed, with 6 mana.
C19_Witness ==
    /\ last = Unlogged
    /\ width = 2 /\ height = 2
    /\ Characters = Names
    /\ OnCell("clare") /\ OnCell("dan")
    /\ mana["clare"] = 6
    /\ hit_points["dan"] = 5

\* C20 (as claimed): move on a character at the sentinel position is a
\* no-op: the character stays there, no cell comes to refer to it, and a
\* wizard's mana is unchanged.
C20_UnplacedMoveIsNoOp ==
    [][\A e \in Names : \A d \in Directions :
          (MoveIn(e, d) /\ x[e] = -1 /\ y[e] = -1) =>
              /\ x'[e] = -1 /\ y'[e] = -1
              /\ RefersTo(map', e) \subseteq RefersTo(map, e)
              /\ mana'[e] = mana[e]]_vars

\* C21 (as claimed): a constructor refused for invalid hit points, or a
\* wizard's for invalid mana, raises an error and leaves is_occupied(cx, cy)
\* with the answer it had before the call, for every cell: no cell that was
\* empty is occupied.
C21_FailedConstructionLeavesGrid ==
    [][\A e \in {o \in Names : status[o] = "none"} :
       \A cx \in -1..width, cy \in -1..height :
       \A hp \in {-1, 0, 10}, mn \in {-1, 4} :
          (/\ hp < 0 \/ (Class(e) = "Wizard" /\ mn < 0)
           /\ NewAt(e, cx, cy, hp, mn)) =>
              /\ raised' = "ValueError"
              /\ \A c \in Cells(width, height) :
                    is_occupied_after(c[1], c[2]) = is_occupied(Cur, c[1], c[2])]_vars

====
